---- MODULE Spec2Model ----
(***************************************************************************)
(* BloodFlowSimulator (client/src/pages/home.tsx): the pressure adjuster,  *)
(* the flow effect, the pressure profile of the chart and the canvas       *)
(* animation effect with its start-up timer, its requestAnimationFrame     *)
(* loop and its cleanup.                                                   *)
(*                                                                         *)
(* Numbers.  The source computes in IEEE doubles; the model computes in    *)
(* integers of a fixed unit, truncating where a quotient is not exact:     *)
(*   pressures          1/2 mmHg   (the adjuster adds multiples of 0.5)    *)
(*   flow               1/1000 mL/min, truncated toward zero               *)
(*   profile pressures  1/300 mmHg (exact), then Math.round                *)
(*   x, speed           1/1000 px, truncated toward zero                   *)
(*   y                  1/10000 px (exact for the modelled random draws)   *)
(* Non-finite doubles (NaN, +Infinity, -Infinity) are separate values.     *)
(***************************************************************************)
EXTENDS Integers, Sequences, FiniteSets, TLC

VARIABLES
    upstreamPressure,     \* useState(120)
    downstreamPressure,   \* useState(5)
    constrictionPercent,  \* useState(28)
    flow,                 \* useState(5000), an extended number in 1/1000 mL/min
    flowSet,              \* the flow effect has run for the current parameters
    pressureData,         \* what the last render's getPressureData() returned
    queuedFlow,           \* the value of a setFlow not yet rendered, or NoFlow
    mounted,              \* the component is mounted
    sessions,             \* one record per run of the animation effect, in order
    rect,                 \* canvas.getBoundingClientRect(): the laid-out size
    canvas,               \* canvas.width, canvas.height
    particles,            \* particlesRef.current
    ticks,                \* number of runs of animate so far
    lastTick,             \* history: the last run of animate
    before                \* history: particlesRef.current before the last animate

paramVars == <<upstreamPressure, downstreamPressure, constrictionPercent>>

calcVars == <<flow, flowSet, pressureData>>

animVars == <<queuedFlow, mounted, sessions, rect, canvas, particles, ticks, lastTick>>

vars == <<upstreamPressure, downstreamPressure, constrictionPercent, flow,
          flowSet, pressureData, queuedFlow, mounted, sessions, rect, canvas,
          particles, ticks, lastTick, before>>

----------------------------------------------------------------------------
(* Arithmetic helpers *)

Abs(n) == IF n < 0 THEN -n ELSE n

Sign(n) == IF n > 0 THEN 1 ELSE IF n < 0 THEN -1 ELSE 0

Max(a, b) == IF a >= b THEN a ELSE b

Min(a, b) == IF a <= b THEN a ELSE b

\* floor(a * b / m) for a, b >= 0 and m > 0, without forming a * b
MulDiv(a, b, m) == (a \div m) * b + ((a % m) * b) \div m

\* Extended numbers: a double is finite (v in the unit of its use) or not
Fin(v) == [k |-> "fin", v |-> v]

NaN == [k |-> "nan", v |-> 0]

PosInf == [k |-> "inf", v |-> 1]

NegInf == [k |-> "inf", v |-> -1]

IsFinite(n) == n.k = "fin"

----------------------------------------------------------------------------
(* Program constants *)

BASE_RESISTANCE == 484         \* 0.00484, in units of 1e-5

normalConstriction == 28

InitialUpstream == 120

InitialDownstream == 5

InitialFlow == 5000

MaxUpstream == 250             \* upstream slider, 0..250 step 1

MaxDownstream == 100           \* downstream slider, 0..100 step 1

MaxConstriction == 90          \* constriction slider, 0..90 step 1


----------------------------------------------------------------------------
(* Pressure adjuster and flow effect *)

\* Mutant: the change of pressure without its factor 0.5
getAdjustedPressuresNoHalf(upstream, downstream, constriction) ==
    LET pressureChange == 2 * (constriction - normalConstriction)
    IN  [upstream |-> 2 * upstream + pressureChange, downstream |-> 2 * downstream]

\* Result in 1/2 mmHg: upstream + (constriction - 28) * 0.5, downstream
getAdjustedPressures(upstream, downstream, constriction) ==
    LET pressureChange == constriction - normalConstriction
    IN  [upstream |-> 2 * upstream + pressureChange, downstream |-> 2 * downstream]

\* resistance = BASE_RESISTANCE * (100 / (100 - c))^4 = resistanceNum / resistanceDen(c)
resistanceNum == BASE_RESISTANCE * 1000

resistanceDen(constriction) ==
    LET r2 == (100 - constriction) * (100 - constriction) IN r2 * r2

\* Mutant: deltaP taken from the pressures as set, not as adjusted
newFlowUnadjusted(upstream, downstream, constriction) ==
    LET deltaP == 2 * upstream - 2 * downstream
        r2     == (100 - constriction) * (100 - constriction)
    IN  Sign(deltaP) * MulDiv(Abs(deltaP) * r2, r2, (2 * resistanceNum) \div 1000)

\* deltaP / resistance, in 1/1000 mL/min:
\*   (deltaP2 / 2) * resistanceDen / resistanceNum * 1000
newFlow(upstream, downstream, constriction) ==
    LET p      == getAdjustedPressures(upstream, downstream, constriction)
        deltaP == p.upstream - p.downstream
        r2     == (100 - constriction) * (100 - constriction)
    IN  Sign(deltaP) * MulDiv(Abs(deltaP) * r2, r2, (2 * resistanceNum) \div 1000)

----------------------------------------------------------------------------
(* Pressure profile of the chart *)

steps == 10

restrictionPoint == 3

restrictionLength == 2

\* Math.round of a pressure given in 1/300 mmHg: floor(p + 0.5)
MathRound300(p300) == (p300 + 150) \div 300

\* The pressure at sample i, in 1/300 mmHg
samplePressure(upstream2, downstream2, i) ==
    LET totalPressureDrop == upstream2 - downstream2          \* 1/2 mmHg
        flowDirection     == IF upstream2 >= downstream2 THEN 1 ELSE -1
        position          == (i * 100) \div steps
        endOfRestriction  == (restrictionPoint + restrictionLength) * 10
    IN  IF position < restrictionPoint * 10
        THEN 150 * upstream2
             - ((totalPressureDrop * 15 * position) \div (restrictionPoint * 10))
               * flowDirection
        ELSE IF position <= endOfRestriction
        THEN 150 * upstream2
             - (totalPressureDrop * 15
                + (totalPressureDrop * 120 * (position - restrictionPoint * 10))
                  \div (restrictionLength * 10)) * flowDirection
        ELSE LET pressureAtEndOfRestriction ==
                     150 * upstream2 - (totalPressureDrop * 135) * flowDirection
             IN  pressureAtEndOfRestriction
                 - ((totalPressureDrop * 15 * (position - endOfRestriction))
                    \div (100 - endOfRestriction)) * flowDirection

getPressureData(upstream, downstream, constriction) ==
    LET p == getAdjustedPressures(upstream, downstream, constriction)
    IN  [i \in 1..(steps + 1) |->
            [position |-> ((i - 1) * 100) \div steps,
             pressure |-> MathRound300(samplePressure(p.upstream, p.downstream, i - 1))]]

----------------------------------------------------------------------------
(* The particle field: createParticles and animate *)

NumParticles == 1              \* stands for particleCount = 200

ReferenceFlow == 5000          \* Math.abs(flow)/5000

\* What Math.random() returns, in tenths: 0 <= Math.random() < 1
RandVals == {0, 5}

ParticleIds == 1..NumParticles

\* canvas.height * 0.4, in 1/10000 px
normalWidth(height) == 4000 * height

\* normalWidth * (1 - constrictionPercent/100), in 1/10000 px
restrictedWidth(height, constriction) ==
    (normalWidth(height) * (100 - constriction)) \div 100

\* canvas.height / 2, in 1/10000 px
centerline(height) == 5000 * height

\* canvas.width * 0.3, in 1/1000 px
tickRestrictionPoint(width) == 300 * width

\* Comparisons and sums of doubles; a comparison with NaN is false
XLess(x, n) == IF x.k = "fin" THEN x.v < n ELSE x = NegInf

XGreater(x, n) == IF x.k = "fin" THEN x.v > n ELSE x = PosInf

XAdd(a, b) ==
    IF a.k = "nan" \/ b.k = "nan" THEN NaN
    ELSE IF a.k = "fin" /\ b.k = "fin" THEN Fin(a.v + b.v)
    ELSE IF a.k = "fin" THEN b
    ELSE IF b.k = "fin" THEN a
    ELSE IF a = b THEN a ELSE NaN

createParticles(cv, xs, ys) ==
    [i \in ParticleIds |->
        [x     |-> Fin(xs[i] * 100 * cv.width),      \* Math.random() * canvas.width
         y     |-> ys[i] * 1000 * cv.height,         \* Math.random() * canvas.height
         speed |-> Fin(0)]]

\* upstream >= downstream ? 1 : -1 on the adjusted pressures of the closure
flowDirection(cl) ==
    LET p == getAdjustedPressures(cl.upstreamPressure, cl.downstreamPressure,
                                  cl.constrictionPercent)
    IN  IF p.upstream >= p.downstream THEN 1 ELSE -1

\* Math.pow(normalWidth/restrictedWidth, 2) as a fraction; the canvas height,
\* not zero, cancels: normalWidth/restrictedWidth = 100/(100 - constrictionPercent)
areaRatio(constriction) ==
    [n |-> 100 * 100, d |-> (100 - constriction) * (100 - constriction)]

\* Mutant: the two branches of the multiplier exchanged
velocityMultiplierSwapped(x, width, constriction) ==
    LET ar == areaRatio(constriction)
    IN  IF ~XLess(x, tickRestrictionPoint(width)) THEN [n |-> 1, d |-> 1]
        ELSE IF ar.n >= 5 * ar.d THEN [n |-> 5, d |-> 1] ELSE ar

\* particle.x < restrictionPoint ? 1 : Math.min(areaRatio, 5), as a fraction
velocityMultiplier(x, width, constriction) ==
    LET ar == areaRatio(constriction)
    IN  IF XLess(x, tickRestrictionPoint(width)) THEN [n |-> 1, d |-> 1]
        ELSE IF ar.n >= 5 * ar.d THEN [n |-> 5, d |-> 1] ELSE ar

\* particle.x < restrictionPoint ? normalWidth : restrictedWidth
currentWidth(x, cv, constriction) ==
    IF XLess(x, tickRestrictionPoint(cv.width)) THEN normalWidth(cv.height)
    ELSE restrictedWidth(cv.height, constriction)

\* Math.abs(particle.y - canvas.height/2)
distanceFromCenter(y, cv) == Abs(y - centerline(cv.height))

\* Math.max(Math.abs(flow)/5000, 0.1), in 1/1000; Math.max of NaN is NaN
baseSpeed(f) ==
    IF f.k = "nan" THEN NaN
    ELSE IF f.k = "inf" THEN PosInf
    ELSE Fin(Max(Abs(f.v) \div ReferenceFlow, 100))

\* baseSpeed * velocityMultiplier * flowDirection * laminarProfile, in 1/1000 px,
\* with laminarProfile = Math.max(0, 1 - (distanceFromCenter / (currentWidth/2))^2)
particleSpeed(p, cl, cv) ==
    LET vm   == velocityMultiplier(p.x, cv.width, cl.constrictionPercent)
        half == currentWidth(p.x, cv, cl.constrictionPercent) \div 2
        dist == distanceFromCenter(p.y, cv)
        base == baseSpeed(cl.flow)
        dir  == flowDirection(cl)
    IN  IF base.k = "nan" THEN NaN
        ELSE IF base.k = "inf"
        THEN (IF dist >= half THEN NaN ELSE IF dir > 0 THEN PosInf ELSE NegInf)
        ELSE IF dist >= half THEN Fin(0)
        ELSE Fin(dir * MulDiv(MulDiv(MulDiv(base.v, vm.n, vm.d), half - dist, half),
                              half + dist, half))

\* Math.random() * width + (canvas.height/2 - width/2)
randomY(rand, width, cv) == (rand * width) \div 10 + (centerline(cv.height) - width \div 2)

\* flowDirection > 0 ? 0 : canvas.width
inletEdge(cl, cv) == Fin(IF flowDirection(cl) > 0 THEN 0 ELSE 1000 * cv.width)

\* Mutant: a particle outside the wall is sent to the inlet edge at the y it has
updateParticleKeepsY(p, cl, cv, rand) ==
    LET cw    == currentWidth(p.x, cv, cl.constrictionPercent)
        dist  == distanceFromCenter(p.y, cv)
        speed == particleSpeed(p, cl, cv)
        dir   == flowDirection(cl)
        moved == XAdd(p.x, speed)
    IN  IF 2 * dist <= cw
        THEN IF \/ dir > 0 /\ XGreater(moved, 1000 * cv.width)
                \/ dir < 0 /\ XLess(moved, 0)
             THEN [x |-> inletEdge(cl, cv), y |-> randomY(rand, cw, cv), speed |-> speed]
             ELSE [x |-> moved, y |-> p.y, speed |-> speed]
        ELSE [x |-> inletEdge(cl, cv), y |-> p.y, speed |-> speed]

\* The body of particlesRef.current.forEach for one particle
updateParticle(p, cl, cv, rand) ==
    LET cw    == currentWidth(p.x, cv, cl.constrictionPercent)
        dist  == distanceFromCenter(p.y, cv)
        speed == particleSpeed(p, cl, cv)
        dir   == flowDirection(cl)
        moved == XAdd(p.x, speed)
    IN  IF 2 * dist <= cw
        THEN IF \/ dir > 0 /\ XGreater(moved, 1000 * cv.width)
                \/ dir < 0 /\ XLess(moved, 0)
             THEN [x |-> inletEdge(cl, cv), y |-> randomY(rand, cw, cv), speed |-> speed]
             ELSE [x |-> moved, y |-> p.y, speed |-> speed]
        ELSE [x     |-> inletEdge(cl, cv),
              y     |-> randomY(rand, normalWidth(cv.height), cv),
              speed |-> speed]

\* Mutant: animate without the zero-dimension guard
animateUnguarded(ps, cl, cv, rands) ==
    [i \in ParticleIds |-> updateParticle(ps[i], cl, cv, rands[i])]

\* animate, without the drawing and the requestAnimationFrame; rands[i] is the
\* Math.random() drawn for particle i, should the tick draw one
animate(ps, cl, cv, rands) ==
    IF cv.width = 0 \/ cv.height = 0 THEN ps
    ELSE [i \in ParticleIds |-> updateParticle(ps[i], cl, cv, rands[i])]

\* What Math.random() returns for each particle of one pass
Rands == [ParticleIds -> RandVals]

\* Every collection one animate can leave, over the random draws
animateOutcomes(ps, cl, cv) == {animate(ps, cl, cv, rands) : rands \in Rands}

\* Every collection createParticles() followed by the first animate() can leave.
\* The particles are drawn and updated independently of each other, so the
\* outcomes are all combinations of the outcomes of one particle.
firstOutcomes(cl, cv) ==
    LET same(v) == [j \in ParticleIds |-> v]
        one == {animate(createParticles(cv, same(x), same(y)), cl, cv, same(r))[1] :
                    x \in RandVals, y \in RandVals, r \in RandVals}
    IN  [ParticleIds -> one]

----------------------------------------------------------------------------
(* The component: renders, effects, timers and frames *)

MaxSessions == 6               \* runs of the animation effect

MaxTicks == 3                  \* runs of animate

NoFlow == [k |-> "none", v |-> 0]

ZeroRect == [width |-> 0, height |-> 0]

CanvasRects == {ZeroRect, [width |-> 10, height |-> 10], [width |-> 2, height |-> 8]}

UpstreamChoices == {0, InitialUpstream}

DownstreamChoices == {InitialDownstream, MaxDownstream}

ConstrictionChoices == {normalConstriction, MaxConstriction}

\* The animation effect body: a closure over the render's state, a 100 ms timer
newSession(f, up, down, c) ==
    [flow |-> f, upstreamPressure |-> up, downstreamPressure |-> down,
     constrictionPercent |-> c,
     timer            |-> "pending",    \* setTimeout(..., 100) not yet fired
     animationFrameId |-> FALSE,        \* a requestAnimationFrame callback is pending
     listening        |-> FALSE,        \* resizeCanvas is a resize listener
     cleanedUp        |-> FALSE]        \* the effect's cleanup has run

\* The cleanup: removeEventListener, cancelAnimationFrame(animationFrameId).
\* Before the timer fired animationFrameId is undefined and nothing is cancelled.
cleanup(s) ==
    [s EXCEPT !.listening = FALSE, !.animationFrameId = FALSE, !.cleanedUp = TRUE]

current == Len(sessions)

\* Cleanup of the current effect, then the effect body of the new render
rerunEffect(f, up, down, c) ==
    Append([sessions EXCEPT ![current] = cleanup(@)], newSession(f, up, down, c))

\* The state after mount: the first render's effects have run
Init ==
    /\ upstreamPressure = InitialUpstream
    /\ downstreamPressure = InitialDownstream
    /\ constrictionPercent = normalConstriction
    /\ flow = Fin(InitialFlow * 1000)
    /\ flowSet = TRUE
    /\ pressureData = getPressureData(InitialUpstream, InitialDownstream, normalConstriction)
    /\ queuedFlow = Fin(newFlow(InitialUpstream, InitialDownstream, normalConstriction))
    /\ mounted = TRUE
    /\ sessions = <<newSession(Fin(InitialFlow * 1000), InitialUpstream,
                               InitialDownstream, normalConstriction)>>
    /\ rect \in CanvasRects \ {ZeroRect}
    /\ canvas = [width |-> 300, height |-> 150]
    /\ particles = <<>>
    /\ ticks = 0
    /\ lastTick = [sid |-> 0, late |-> FALSE, width |-> 0, height |-> 0]
    /\ before = <<>>

\* A render after the parameters changed: getPressureData, the flow effect
\* (setFlow) and the animation effect (cleanup, new closure over the old flow).
\* React renders a queued state update before the next event, timer or frame
\* is handled, so each of them finds no setFlow waiting.
renderParams(up, down, c) ==
    /\ mounted
    /\ queuedFlow = NoFlow
    /\ <<up, down, c>> # <<upstreamPressure, downstreamPressure, constrictionPercent>>
    /\ Len(sessions) < MaxSessions
    /\ upstreamPressure' = up
    /\ downstreamPressure' = down
    /\ constrictionPercent' = c
    /\ pressureData' = getPressureData(up, down, c)
    /\ queuedFlow' = IF Fin(newFlow(up, down, c)) = flow THEN NoFlow
                     ELSE Fin(newFlow(up, down, c))
    /\ sessions' = rerunEffect(flow, up, down, c)
    /\ UNCHANGED <<flow, flowSet, mounted, rect, canvas, particles, ticks, lastTick, before>>

SetUpstream == \E v \in UpstreamChoices :
    renderParams(v, downstreamPressure, constrictionPercent)

SetDownstream == \E v \in DownstreamChoices :
    renderParams(upstreamPressure, v, constrictionPercent)

SetConstriction == \E v \in ConstrictionChoices :
    renderParams(upstreamPressure, downstreamPressure, v)

Reset == renderParams(InitialUpstream, InitialDownstream, normalConstriction)

\* The render of a queued setFlow: the animation effect runs again, the flow
\* effect does not (its dependencies are unchanged)
RenderFlow ==
    /\ mounted
    /\ queuedFlow # NoFlow
    /\ Len(sessions) < MaxSessions
    /\ flow' = queuedFlow
    /\ queuedFlow' = NoFlow
    /\ sessions' = rerunEffect(queuedFlow, upstreamPressure, downstreamPressure,
                               constrictionPercent)
    /\ UNCHANGED <<paramVars, flowSet, pressureData, mounted, rect, canvas, particles,
                   ticks, lastTick, before>>

\* The 100 ms timer of session s fires: resizeCanvas, addEventListener,
\* createParticles, and the first animate(). Timers fire in the order set.
TimerFired(s) ==
    /\ queuedFlow = NoFlow
    /\ sessions[s].timer = "pending"
    /\ ticks < MaxTicks
    /\ ticks' = ticks + 1
    /\ \A t \in 1..(s - 1) : sessions[t].timer = "fired"
    /\ canvas' = rect
    /\ particles' \in firstOutcomes(sessions[s], rect)
    /\ sessions' = [sessions EXCEPT ![s].timer = "fired", ![s].listening = TRUE,
                                    ![s].animationFrameId = TRUE]
    /\ lastTick' = [sid |-> s, late |-> sessions[s].cleanedUp,
                    width |-> rect.width, height |-> rect.height]
    /\ UNCHANGED <<paramVars, calcVars, queuedFlow, mounted, rect, before>>

\* A requestAnimationFrame callback of session s runs animate
runFrame(s) ==
    /\ queuedFlow = NoFlow
    /\ sessions[s].animationFrameId
    /\ ticks < MaxTicks
    /\ ticks' = ticks + 1
    /\ particles' \in animateOutcomes(particles, sessions[s], canvas)
    /\ lastTick' = [sid |-> s, late |-> sessions[s].cleanedUp,
                    width |-> canvas.width, height |-> canvas.height]
    /\ UNCHANGED <<paramVars, calcVars, queuedFlow, mounted, sessions, rect, canvas>>

Frame(s) == runFrame(s) /\ UNCHANGED before

\* The window is resized: the layout changes, every registered resizeCanvas runs
WindowResize ==
    \E r \in CanvasRects :
        /\ mounted
        /\ queuedFlow = NoFlow
        /\ r # rect
        /\ rect' = r
        /\ canvas' = IF \E s \in 1..Len(sessions) : sessions[s].listening
                     THEN r ELSE canvas
        /\ UNCHANGED <<paramVars, calcVars, queuedFlow, mounted, sessions, particles,
                       ticks, lastTick, before>>

\* The component unmounts: the current effect's cleanup runs, the canvas
\* element leaves the document
Unmount ==
    /\ mounted
    /\ queuedFlow = NoFlow
    /\ mounted' = FALSE
    /\ queuedFlow' = NoFlow
    /\ sessions' = [sessions EXCEPT ![current] = cleanup(@)]
    /\ rect' = ZeroRect
    /\ UNCHANGED <<paramVars, calcVars, canvas, particles, ticks, lastTick, before>>

Next ==
    \/ SetUpstream
    \/ SetDownstream
    \/ SetConstriction
    \/ Reset
    \/ RenderFlow
    \/ \E s \in 1..Len(sessions) : TimerFired(s)
    \/ \E s \in 1..Len(sessions) : Frame(s)
    \/ WindowResize
    \/ Unmount

Spec == Init /\ [][Next]_vars

----------------------------------------------------------------------------
(* SpecCalc: the flow effect and the profile over the whole slider ranges *)

DownstreamSamples == {0, InitialDownstream, 50, MaxDownstream}

InitCalc ==
    /\ upstreamPressure \in 0..MaxUpstream
    /\ downstreamPressure \in DownstreamSamples
    /\ constrictionPercent \in 0..MaxConstriction
    /\ flow = Fin(InitialFlow * 1000)
    /\ flowSet = FALSE
    /\ pressureData = <<>>
    /\ queuedFlow = NoFlow
    /\ mounted = TRUE
    /\ sessions = <<>>
    /\ rect = ZeroRect
    /\ canvas = ZeroRect
    /\ particles = <<>>
    /\ ticks = 0
    /\ lastTick = [sid |-> 0, late |-> FALSE, width |-> 0, height |-> 0]
    /\ before = <<>>

\* The flow effect, lines 37-49
CalcFlowEffect ==
    /\ ~flowSet
    /\ flow' = Fin(newFlow(upstreamPressure, downstreamPressure, constrictionPercent))
    /\ flowSet' = TRUE
    /\ UNCHANGED <<paramVars, pressureData, animVars, before>>

\* getPressureData() of the render, line 208
CalcRender ==
    /\ pressureData = <<>>
    /\ pressureData' = getPressureData(upstreamPressure, downstreamPressure,
                                       constrictionPercent)
    /\ UNCHANGED <<paramVars, flow, flowSet, animVars, before>>

NextCalc == CalcFlowEffect \/ CalcRender

SpecCalc == InitCalc /\ [][NextCalc]_vars

----------------------------------------------------------------------------
(* SpecTick: one animate() on drawn particles, closures and canvases *)

\* A session whose timer has fired and whose next frame is requested
runningSession(f, up, down, c) ==
    [newSession(f, up, down, c) EXCEPT !.timer = "fired", !.animationFrameId = TRUE,
                                       !.listening = TRUE]

TickConstrictions == {0, 1, normalConstriction, 50, 56, MaxConstriction}

TickXs == {0, 2, 3, 5, 9}                       \* x, in tenths of canvas.width

TickYs == {0, 30, 40, 45, 49, 50, 60, 100}      \* y, in hundredths of canvas.height

tickInputs(nonFinite) ==
    /\ upstreamPressure \in UpstreamChoices
    /\ downstreamPressure \in DownstreamChoices
    /\ constrictionPercent \in TickConstrictions
    /\ flow \in IF nonFinite THEN {NaN, PosInf, NegInf}
               ELSE {Fin(newFlow(upstreamPressure, downstreamPressure,
                                 constrictionPercent)),
                     Fin(InitialFlow * 1000)}
    /\ flowSet = TRUE
    /\ pressureData = getPressureData(upstreamPressure, downstreamPressure,
                                      constrictionPercent)
    /\ queuedFlow = NoFlow
    /\ mounted = TRUE
    /\ sessions = <<runningSession(flow, upstreamPressure, downstreamPressure,
                                   constrictionPercent)>>
    /\ rect \in CanvasRects \ {ZeroRect}
    /\ canvas = rect
    /\ particles \in [ParticleIds ->
                        {[x |-> Fin(x * 100 * rect.width), y |-> y * 100 * rect.height,
                          speed |-> Fin(0)] : x \in TickXs, y \in TickYs}]
    /\ ticks = 0
    /\ lastTick = [sid |-> 0, late |-> FALSE, width |-> 0, height |-> 0]
    /\ before = <<>>

\* The flow of the closure is the flow effect's result or the initial state
InitTick == tickInputs(FALSE)

\* The flow of the closure is not finite
InitTickNonFinite == tickInputs(TRUE)

TickFrame == runFrame(1) /\ before' = particles

NextTick == TickFrame

SpecTick == InitTick /\ [][NextTick]_vars

SpecTickNonFinite == InitTickNonFinite /\ [][NextTick]_vars

----------------------------------------------------------------------------
(* SpecGeom: animate() across canvas resizes, zero dimensions included *)

\* What getBoundingClientRect() can report: a collapsed or detached canvas has
\* one or both dimensions zero
GeomRects == CanvasRects \cup {[width |-> 0, height |-> 8], [width |-> 2, height |-> 0]}

\* A running session whose particles createParticles() drew on the canvas the
\* timer found (rect), and whose canvas a resize has set since
InitGeom ==
    /\ upstreamPressure \in UpstreamChoices
    /\ downstreamPressure \in DownstreamChoices
    /\ constrictionPercent \in ConstrictionChoices
    /\ flow = Fin(newFlow(upstreamPressure, downstreamPressure, constrictionPercent))
    /\ flowSet = TRUE
    /\ pressureData = getPressureData(upstreamPressure, downstreamPressure,
                                      constrictionPercent)
    /\ queuedFlow = NoFlow
    /\ mounted = TRUE
    /\ sessions = <<runningSession(flow, upstreamPressure, downstreamPressure,
                                   constrictionPercent)>>
    /\ rect \in GeomRects
    /\ canvas \in GeomRects
    /\ particles \in {createParticles(rect, xs, ys) : xs \in Rands, ys \in Rands}
    /\ ticks = 0
    /\ lastTick = [sid |-> 0, late |-> FALSE, width |-> 0, height |-> 0]
    /\ before = [particles |-> particles, lastTick |-> lastTick]

\* animate as a frame callback; before keeps the particles it found and what
\* the animate before it observed
GeomFrame ==
    /\ runFrame(1)
    /\ before' = [particles |-> particles, lastTick |-> lastTick]

\* resizeCanvas as the resize listener of the running session
GeomResize ==
    \E r \in GeomRects :
        /\ r # canvas
        /\ sessions[1].listening
        /\ rect' = r
        /\ canvas' = r
        /\ UNCHANGED <<paramVars, calcVars, queuedFlow, mounted, sessions, particles,
                       ticks, lastTick, before>>

NextGeom == GeomFrame \/ GeomResize

SpecGeom == InitGeom /\ [][NextGeom]_vars

----------------------------------------------------------------------------
(* Properties *)

Sids == 1..Len(sessions)

\* animate has run; and it ran on a canvas with both dimensions non-zero
TickRan == lastTick.sid # 0

TickMoved == TickRan /\ lastTick.width # 0 /\ lastTick.height # 0

tickSession == sessions[lastTick.sid]

tickCanvas == [width |-> lastTick.width, height |-> lastTick.height]

\* Math.round of a pressure given in 1/2 mmHg
MathRound2(p2) == (p2 + 1) \div 2

\* C1: once the animation effect's cleanup has run for a session, no animate of
\* that session runs and none is scheduled.
C1_NoTickAfterCleanup ==
    /\ ~lastTick.late
    /\ \A s \in Sids : sessions[s].cleanedUp => ~sessions[s].animationFrameId

\* C2: every animate that updates the particles uses a flow that is the flow
\* effect's result for the pressures and constriction the same animate uses.
C2_TickFlowIsSolverResult ==
    TickMoved =>
        tickSession.flow = Fin(newFlow(tickSession.upstreamPressure,
                                       tickSession.downstreamPressure,
                                       tickSession.constrictionPercent))

\* C3: after every animate on a canvas with non-zero dimensions, every
\* particle's |y - canvas.height/2| is at most normalWidth/2 of that canvas.
C3_ParticlesContained ==
    TickMoved =>
        \A i \in ParticleIds :
            2 * distanceFromCenter(particles[i].y, tickCanvas)
                <= normalWidth(lastTick.height)

\* C3 witness: a second or later run of animate left a particle that it had
\* found outside the wall on the edge of the normal band (Math.random() = 0)
C3_Witness ==
    /\ TickMoved
    /\ ticks > 1
    /\ \E i \in ParticleIds :
         /\ particles[i].y = randomY(0, normalWidth(lastTick.height), tickCanvas)
         /\ particles[i].x = inletEdge(tickSession, tickCanvas)

\* C4: the first sample of the profile is round(upstream) and the last is
\* round(downstream), within 1, whichever of the two pressures is larger.
C4_ProfileEndpoints ==
    pressureData # <<>> =>
        LET p == getAdjustedPressures(upstreamPressure, downstreamPressure,
                                      constrictionPercent)
        IN  /\ Abs(pressureData[1].pressure - MathRound2(p.upstream)) <= 1
            /\ Abs(pressureData[steps + 1].pressure - MathRound2(p.downstream)) <= 1

\* C5: along the 11 samples the pressure is non-increasing when
\* upstream >= downstream and non-decreasing when upstream < downstream.
C5_ProfileMonotone ==
    pressureData # <<>> =>
        LET p == getAdjustedPressures(upstreamPressure, downstreamPressure,
                                      constrictionPercent)
        IN  \A i \in 1..steps :
                IF p.upstream >= p.downstream
                THEN pressureData[i].pressure >= pressureData[i + 1].pressure
                ELSE pressureData[i].pressure <= pressureData[i + 1].pressure

\* C6 as claimed: for fixed pressures the flow does not decrease when the
\* constriction grows.
C6_FlowIncreasesWithConstriction ==
    flowSet =>
        \A c2 \in constrictionPercent..MaxConstriction :
            flow.v <= newFlow(upstreamPressure, downstreamPressure, c2)

\* C6 amended: for fixed pressures the flow does not increase when the
\* constriction grows if upstream - downstream >= 27, and does not decrease
\* if upstream - downstream <= -30.
C6_FlowMonotoneInConstriction ==
    flowSet =>
        \A c2 \in constrictionPercent..MaxConstriction :
            /\ upstreamPressure - downstreamPressure >= 27
                   => flow.v >= newFlow(upstreamPressure, downstreamPressure, c2)
            /\ upstreamPressure - downstreamPressure <= -30
                   => flow.v <= newFlow(upstreamPressure, downstreamPressure, c2)

C6_Witness ==
    /\ flowSet
    /\ upstreamPressure = InitialUpstream
    /\ downstreamPressure = InitialDownstream
    /\ constrictionPercent = normalConstriction
    /\ flow.v > newFlow(upstreamPressure, downstreamPressure, MaxConstriction)

\* C7 as claimed: equal upstreamPressure and downstreamPressure give flow 0 at
\* every constriction.
C7_EqualInputsGiveZeroFlow ==
    (flowSet /\ upstreamPressure = downstreamPressure) => flow = Fin(0)

\* C7 amended: equal adjusted pressures give flow exactly 0 at every
\* constriction; equal upstreamPressure and downstreamPressure give flow 0
\* exactly at constriction 28.
C7_ZeroDrivingPressureGivesZeroFlow ==
    flowSet =>
        LET p == getAdjustedPressures(upstreamPressure, downstreamPressure,
                                      constrictionPercent)
        IN  /\ p.upstream = p.downstream => flow = Fin(0)
            /\ upstreamPressure = downstreamPressure
                   => (flow = Fin(0) <=> constrictionPercent = normalConstriction)

C7_Witness ==
    /\ flowSet
    /\ constrictionPercent # normalConstriction
    /\ upstreamPressure # downstreamPressure
    /\ LET p == getAdjustedPressures(upstreamPressure, downstreamPressure,
                                     constrictionPercent)
       IN  p.upstream = p.downstream
    /\ flow = Fin(0)

\* C8: the sign of the flow is the sign of adjusted upstream - downstream, the
\* flow of swapped pressures at constriction 28 is the negated flow, and the
\* direction of an animate (and the arrow of a settled render) is +1 exactly
\* when its flow >= 0 and -1 exactly when its flow < 0.
C8_DirectionIsFlowSign ==
    LET p == getAdjustedPressures(upstreamPressure, downstreamPressure,
                                  constrictionPercent)
    IN  /\ Sign(newFlow(upstreamPressure, downstreamPressure, constrictionPercent))
               = Sign(p.upstream - p.downstream)
        /\ newFlow(downstreamPressure, upstreamPressure, normalConstriction)
               = - newFlow(upstreamPressure, downstreamPressure, normalConstriction)
        /\ (mounted /\ queuedFlow = NoFlow)
               => (p.upstream >= p.downstream <=> flow.v >= 0)
        /\ TickRan => /\ flowDirection(tickSession) = 1 <=> tickSession.flow.v >= 0
                      /\ flowDirection(tickSession) = -1 <=> tickSession.flow.v < 0

\* The particle i as animate found it, and the speed animate would assign to a
\* particle at the same y before the restriction point
foundAfterRestriction(i) ==
    /\ tickSession.constrictionPercent > 0
    /\ ~XLess(before[i].x, tickRestrictionPoint(lastTick.width))
    /\ 2 * distanceFromCenter(before[i].y, tickCanvas)
           <= restrictedWidth(lastTick.height, tickSession.constrictionPercent)

speedBeforeRestriction(i) ==
    particleSpeed([before[i] EXCEPT !.x = Fin(0)], tickSession, tickCanvas)

multiplierAtMostFive(i) ==
    LET vm == velocityMultiplier(before[i].x, lastTick.width,
                                 tickSession.constrictionPercent)
    IN  vm.n <= 5 * vm.d

\* C9 as claimed: for constriction > 0, at every y inside the restricted band
\* the speed assigned at/after the restriction point is at least, in magnitude,
\* the speed assigned before it at the same y; the multiplier is at most 5.
C9_FasterAfterRestriction ==
    TickMoved =>
        \A i \in ParticleIds :
            foundAfterRestriction(i) =>
                /\ Abs(particles[i].speed.v) >= Abs(speedBeforeRestriction(i).v)
                /\ multiplierAtMostFive(i)

\* C9 amended: the same for every y whose offset from the centreline is at
\* most restrictedWidth/2 divided by the square root of 2 (the centreline
\* included); nearer the restricted wall the speed after can be the smaller.
C9_FasterAfterRestrictionNearCentre ==
    TickMoved =>
        \A i \in ParticleIds :
            foundAfterRestriction(i) =>
                LET d  == distanceFromCenter(before[i].y, tickCanvas)
                    rh == restrictedWidth(lastTick.height,
                                          tickSession.constrictionPercent) \div 2
                IN  /\ 2 * d * d <= rh * rh
                        => Abs(particles[i].speed.v) >= Abs(speedBeforeRestriction(i).v)
                    /\ multiplierAtMostFive(i)

C9_Witness ==
    /\ TickMoved
    /\ \E i \in ParticleIds :
         /\ foundAfterRestriction(i)
         /\ before[i].y # centerline(lastTick.height)
         /\ LET d  == distanceFromCenter(before[i].y, tickCanvas)
                rh == restrictedWidth(lastTick.height,
                                      tickSession.constrictionPercent) \div 2
            IN  2 * d * d <= rh * rh
         /\ Abs(particles[i].speed.v) > Abs(speedBeforeRestriction(i).v)

tickDegenerate(t) == t.sid # 0 /\ (t.width = 0 \/ t.height = 0)

\* C11: an animate that observes canvas.width = 0 or canvas.height = 0 leaves
\* every particle's x, y and speed as it found them (so no quotient by a zero
\* dimension reaches a particle: every x and speed stays finite) and has the
\* next frame requested; an animate that observes both dimensions non-zero
\* updates every particle, whatever the animate before it observed.
C11_DegenerateGeometrySkipsUpdate ==
    /\ tickDegenerate(lastTick) =>
          /\ particles = before.particles
          /\ sessions[lastTick.sid].animationFrameId
          /\ \A i \in ParticleIds :
                IsFinite(particles[i].x) /\ IsFinite(particles[i].speed)
    /\ TickMoved =>
          \E rands \in Rands :
              particles = [i \in ParticleIds |->
                              updateParticle(before.particles[i], tickSession,
                                             tickCanvas, rands[i])]

\* C11 witness: the animate before the last one observed a zero dimension and
\* left the particles alone, the last one observed none and moved a particle
C11_Witness ==
    /\ tickDegenerate(before.lastTick)
    /\ TickMoved
    /\ \E i \in ParticleIds :
         /\ particles[i].x # before.particles[i].x
         /\ particles[i].y = before.particles[i].y

\* A step in which the 100 ms timer of some session fires: createParticles()
\* assigns a new collection to particlesRef.current
collectionCreated ==
    \E s \in 1..Len(sessions) :
        sessions[s].timer = "pending" /\ sessions'[s].timer = "fired"

\* C12: the collection keeps its size, a step that changes upstreamPressure,
\* downstreamPressure or constrictionPercent leaves the collection as it is,
\* and an existing collection is replaced by a new one only in a step that
\* resizes the canvas or after the unmount.
C12_CollectionReplacedOnlyOnResize ==
    [][/\ particles' # <<>> => Len(particles') = NumParticles
       /\ paramVars' # paramVars => particles' = particles
       /\ (particles # <<>> /\ collectionCreated)
              => (canvas' # canvas \/ ~mounted)]_vars

\* The last animate found particle i inside the wall and moved it past the
\* canvas edge in the direction of flow
wrappedAround(i) ==
    LET dir   == flowDirection(tickSession)
        moved == XAdd(before[i].x, particles[i].speed)
    IN  /\ 2 * distanceFromCenter(before[i].y, tickCanvas)
               <= currentWidth(before[i].x, tickCanvas, tickSession.constrictionPercent)
        /\ \/ dir > 0 /\ XGreater(moved, 1000 * lastTick.width)
           \/ dir < 0 /\ XLess(moved, 0)

\* C13: a particle an animate moved past the canvas edge in the direction of
\* flow is at the opposite edge after it, at a y inside the width band the
\* vessel has at that edge, for both flow directions.
C13_WrapAroundInsideLocalBand ==
    TickMoved =>
        \A i \in ParticleIds :
            wrappedAround(i) =>
                /\ particles[i].x = inletEdge(tickSession, tickCanvas)
                /\ 2 * distanceFromCenter(particles[i].y, tickCanvas)
                       <= currentWidth(particles[i].x, tickCanvas,
                                       tickSession.constrictionPercent)

====
